---- MODULE Spec2Model ----
(***************************************************************************)
(* Model of the Telegram bot that turns a YouTube URL into an mp3 and      *)
(* sends it back, splitting it with ffmpeg when it exceeds the upload      *)
(* limit (src/unnamed/part_000).  One goroutine per incoming message runs   *)
(* handleMessage; every blocking external call (bot.Send, yt-dlp, os.Stat, *)
(* ffmpeg, test -f, os.Remove) is a step of that goroutine.                *)
(***************************************************************************)
EXTENDS Integers, Sequences, FiniteSets, TLC

VARIABLES
    updates,      \* messages still queued in the updates channel
    spawned,      \* number of handleMessage goroutines started so far
    pc,           \* position of each goroutine
    chatID,       \* message.Chat.ID of each goroutine
    text,         \* message.Text, until url takes it over
    url,          \* the trimmed url, until downloadMp3 has consumed it
    mp3FilePath,  \* first result of downloadMp3
    m4aFilePath,  \* second result of downloadMp3
    partFiles,    \* splitFile's partFiles slice
    i,            \* splitFile's probe counter
    sent,         \* number of completed iterations of the range loop over partFiles
    err,          \* the error value a goroutine is carrying
    disk,         \* the local filesystem: existing path -> size in bytes
    now,          \* last value time.Now().UnixNano() returned
    trace,        \* per goroutine, the external calls it has made, in order
    chunkSize,    \* planner and byte splitter harness: the chunkSize argument of splitFile
    bitrateKbps,  \* planner harness: last argument of splitFile
    segmentTime,  \* planner harness: value calculateSegmentTime returned
    planPc,       \* planner harness: position inside splitFile's first lines
    file,         \* byte splitter: the bytes of the source file and the read position
    totalSize,    \* byte splitter: fileInfo.Size()
    offset,       \* byte splitter: the loop variable i, a byte offset
    written,      \* byte splitter: the part files written, with name index and bytes
    splitPc       \* byte splitter: position inside splitFile

vars == <<updates, spawned, pc, chatID, text, url, mp3FilePath, m4aFilePath,
          partFiles, i, sent, err, disk, now, trace,
          chunkSize, bitrateKbps, segmentTime, planPc,
          file, totalSize, offset, written, splitPc>>

handlerVars == <<updates, spawned, pc, chatID, text, url, mp3FilePath, m4aFilePath,
                 partFiles, i, sent, err, disk, now, trace>>

planVars == <<chunkSize, bitrateKbps, segmentTime, planPc>>

byteVars == <<file, totalSize, offset, written, splitPc>>

----------------------------------------------------------------------------
\* Program constants

maxFileSize == 49 * 1024 * 1024

bitrateKBps == 128

----------------------------------------------------------------------------
\* Bounds of the model

MaxReq == 2        \* goroutine slots
MaxChat == 2       \* chat ids 1..MaxChat
MaxClock == 2      \* clock readings 1..MaxClock
MaxParts == 5      \* ffmpeg writes part files with indices below MaxParts
MaxTextLen == 3    \* symbols in a message text
MaxBudgetUnits == 16   \* planner harness: budgets up to MaxBudgetUnits half kilobytes
MaxBitrate == 24   \* planner harness: bitrates -MaxBitrate..MaxBitrate kbit/s

Reqs == 1..MaxReq
Chats == 1..MaxChat

----------------------------------------------------------------------------
\* Texts: a message text is a sequence of symbols.  The two needles the
\* validator looks for are two-symbol sequences, so a text can hold half of a
\* needle, a needle split by another symbol, or a whole one.

Space == " "

Alphabet == {Space, "x", "youtube.com", "/watch", "youtu.be", "/"}

WatchNeedle == <<"youtube.com", "/watch">>

ShortNeedle == <<"youtu.be", "/">>

SeqsUpTo(S, n) == UNION {[1..m -> S] : m \in 0..n}

Texts == SeqsUpTo(Alphabet, MaxTextLen)

RECURSIVE TrimLeft(_)
TrimLeft(s) == IF s # <<>> /\ Head(s) = Space THEN TrimLeft(Tail(s)) ELSE s

RECURSIVE TrimRight(_)
TrimRight(s) ==
    IF s # <<>> /\ s[Len(s)] = Space THEN TrimRight(SubSeq(s, 1, Len(s) - 1)) ELSE s

TrimSpace(s) == TrimRight(TrimLeft(s))

Contains(s, sub) ==
    \E j \in 1..(Len(s) - Len(sub) + 1) : SubSeq(s, j, j + Len(sub) - 1) = sub

isValidHostOnly(u) == Contains(u, <<"youtube.com">>) \/ Contains(u, <<"youtu.be">>)

isValidYouTubeURL(u) == Contains(u, WatchNeedle) \/ Contains(u, ShortNeedle)

----------------------------------------------------------------------------
\* Paths.  "download_<chat>_<ts>.<ext>" is (chat, ts, ext, NoPart) and
\* "<mp3 path>.part<NNN>.mp3" is the same with part = NNN.

NoPart == 0 - 1

NoPath == [chat |-> 0, ts |-> 0, ext |-> "", part |-> NoPart]

DownloadName(chat, ts, ext) == [chat |-> chat, ts |-> ts, ext |-> ext, part |-> NoPart]

PartName(filePath, n) == [filePath EXCEPT !.part = n]

Exists(p) == p \in DOMAIN disk

Remove(d, p) == [q \in (DOMAIN d) \ {p} |-> d[q]]

WriteAll(d, ps, size) == [q \in (DOMAIN d) \cup ps |-> IF q \in ps THEN size ELSE d[q]]

----------------------------------------------------------------------------
\* Errors are texts too; NoErr is Go's nil error.

NoErr == <<>>

TransportErrs == {<<"Bad Request: file is too big">>}

SendResults == {NoErr} \cup TransportErrs

ExitErr == <<"exit status 1">>

StatErr == <<"stat: no such file or directory">>

ErrorfNoCause(prefix, e) == <<prefix>>

\* fmt.Errorf("<prefix>%v", e)
Errorf(prefix, e) == <<prefix>> \o e

----------------------------------------------------------------------------
\* The record of one external call.

Ev(op, path, n, e, txt) == [op |-> op, path |-> path, n |-> n, err |-> e, text |-> txt]

SendText(r, txt, e) == Ev("sendText", NoPath, chatID[r], e, txt)

Log(r, evs) == [trace EXCEPT ![r] = @ \o evs]

----------------------------------------------------------------------------
\* Go's integer division truncates toward zero; b # 0.

Abs(a) == IF a < 0 THEN 0 - a ELSE a

GoDiv(a, b) ==
    IF (a < 0) = (b < 0) THEN Abs(a) \div Abs(b) ELSE 0 - (Abs(a) \div Abs(b))

\* calculateSegmentTime: the division panics when bitrateKbps / 8 is zero.

bitrateToKBpsDecimal(kbps) == GoDiv(kbps, 1000)

\* bitrateKbps / 8
bitrateToKBps(kbps) == GoDiv(kbps, 8)

calculateSegmentTime(chunk, kbps) ==
    LET chunkSizeKB == GoDiv(chunk, 1024)
        rateKBps == bitrateToKBps(kbps)
    IN  IF rateKBps = 0
        THEN [panic |-> TRUE, value |-> 0]
        ELSE [panic |-> FALSE, value |-> GoDiv(chunkSizeKB, rateKBps)]

needsSplitInclusive(size) == size >= maxFileSize

\* checkAndSendFile's routing test.
needsSplit(size) == size > maxFileSize

----------------------------------------------------------------------------
\* What the external tools can do.

\* yt-dlp: exits non-zero, or exits zero having written the mp3 (of some size)
\* or not, and having left the intermediate m4a behind or not.
NoFile == 0 - 1

Sizes == {0, maxFileSize - 1, maxFileSize, maxFileSize + 1, (34 * maxFileSize) \div 10}

YtDlpResults ==
    {[err |-> ExitErr, size |-> NoFile, m4a |-> FALSE]}
    \cup [err : {NoErr}, size : Sizes \cup {NoFile}, m4a : BOOLEAN]

\* ffmpeg: exits zero or not, having written any set of part files.  The
\* program never reads a part's size, which is recorded as 0.
FfmpegResults == [err : {NoErr, ExitErr}, parts : SUBSET (0..(MaxParts - 1))]

OpenErr == <<"open: no such file or directory">>

\* bot.Send of a file: the upload cannot succeed when the file is missing.
UploadResults(d, p) == IF p \in DOMAIN d THEN SendResults ELSE {OpenErr}

RemoveErr == <<"remove: no such file or directory">>

RemoveEv(d, p) == Ev("remove", p, 0, IF p \in DOMAIN d THEN NoErr ELSE RemoveErr, <<>>)

----------------------------------------------------------------------------
\* Reply texts

InvalidText == <<"Please send a valid YouTube video URL.">>

AckText == <<"Starting to process your request...">>

DownloadErrTextNoCause(e) == <<"Error downloading mp3: ">>

DownloadErrText(e) == <<"Error downloading mp3: ">> \o e

SendErrText(e) == <<"Error sending mp3: ">> \o e

----------------------------------------------------------------------------
\* Messages

NilMessage == [chat |-> 0, text |-> <<>>]

Messages == [chat : Chats, text : Texts]

Idle == [r \in Reqs |-> "idle"]

\* The byte splitter is not running.
ByteOff ==
    /\ file = [bytes |-> <<>>, pos |-> 0]
    /\ totalSize = 0
    /\ offset = 0
    /\ written = <<>>
    /\ splitPc = "off"

Init ==
    /\ updates \in {<<m>> : m \in Messages \cup {NilMessage}}
    /\ spawned = 0
    /\ pc = Idle
    /\ chatID = [r \in Reqs |-> 0]
    /\ text = [r \in Reqs |-> <<>>]
    /\ url = [r \in Reqs |-> <<>>]
    /\ mp3FilePath = [r \in Reqs |-> NoPath]
    /\ m4aFilePath = [r \in Reqs |-> NoPath]
    /\ partFiles = [r \in Reqs |-> <<>>]
    /\ i = [r \in Reqs |-> 0]
    /\ sent = [r \in Reqs |-> 0]
    /\ err = [r \in Reqs |-> NoErr]
    /\ disk = [q \in {} |-> 0]
    /\ now = 1
    /\ trace = [r \in Reqs |-> <<>>]
    /\ chunkSize = 0
    /\ bitrateKbps = 0
    /\ segmentTime = 0
    /\ planPc = "off"
    /\ ByteOff

\* main's loop over the updates channel: one goroutine per non-nil message.
Receive ==
    /\ updates # <<>>
    /\ spawned < MaxReq
    /\ updates' = Tail(updates)
    /\ LET m == Head(updates)
           r == spawned + 1
       IN  IF m = NilMessage
           THEN UNCHANGED <<spawned, pc, chatID, text>>
           ELSE /\ spawned' = r
                /\ pc' = [pc EXCEPT ![r] = "handle"]
                /\ chatID' = [chatID EXCEPT ![r] = m.chat]
                /\ text' = [text EXCEPT ![r] = m.text]
    /\ UNCHANGED <<url, mp3FilePath, m4aFilePath, partFiles, i, sent, err, disk,
                   now, trace, planVars, byteVars>>

\* handleMessage, invalid url: the validation reply, then return.
Reject(r) ==
    /\ pc[r] = "handle"
    /\ ~isValidYouTubeURL(TrimSpace(text[r]))
    /\ \E e \in SendResults : trace' = Log(r, <<SendText(r, InvalidText, e)>>)
    /\ pc' = [pc EXCEPT ![r] = "returned"]
    /\ UNCHANGED <<updates, spawned, chatID, text, url, mp3FilePath, m4aFilePath,
                   partFiles, i, sent, err, disk, now, planVars, byteVars>>

AcceptOrReturn(r) ==
    /\ pc[r] = "handle"
    /\ isValidYouTubeURL(TrimSpace(text[r]))
    /\ \E e \in SendResults :
          /\ trace' = Log(r, <<SendText(r, AckText, e)>>)
          /\ pc' = [pc EXCEPT ![r] = IF e = NoErr THEN "download" ELSE "returned"]
    /\ url' = [url EXCEPT ![r] = TrimSpace(text[r])]
    /\ text' = [text EXCEPT ![r] = <<>>]
    /\ UNCHANGED <<updates, spawned, chatID, mp3FilePath, m4aFilePath,
                   partFiles, i, sent, err, disk, now, planVars, byteVars>>

\* handleMessage, valid url: the acknowledgement, whose error is only logged.
\* From here on only url holds the text.
Accept(r) ==
    /\ pc[r] = "handle"
    /\ isValidYouTubeURL(TrimSpace(text[r]))
    /\ \E e \in SendResults : trace' = Log(r, <<SendText(r, AckText, e)>>)
    /\ url' = [url EXCEPT ![r] = TrimSpace(text[r])]
    /\ text' = [text EXCEPT ![r] = <<>>]
    /\ pc' = [pc EXCEPT ![r] = "download"]
    /\ UNCHANGED <<updates, spawned, chatID, mp3FilePath, m4aFilePath,
                   partFiles, i, sent, err, disk, now, planVars, byteVars>>

\* downloadMp3, and handleMessage's reply when it fails, with yt-dlp ending in
\* one of the ways in Y.  The clock is read once; it never runs backwards.
DownloadIn(r, Y) ==
    /\ pc[r] = "download"
    /\ \E ts \in now..MaxClock, y \in Y :
          LET mp3 == DownloadName(chatID[r], ts, "mp3")
              m4a == DownloadName(chatID[r], ts, "m4a")
              made == (IF y.size # NoFile THEN {mp3} ELSE {})
              call == Ev("acquire", mp3, 0, y.err, <<>>)
          IN  /\ now' = ts
              /\ IF y.err # NoErr
                 THEN /\ \E e \in SendResults :
                            trace' = Log(r, <<call, SendText(r, DownloadErrText(y.err), e)>>)
                      /\ pc' = [pc EXCEPT ![r] = "returned"]
                      /\ UNCHANGED <<mp3FilePath, m4aFilePath, disk>>
                 ELSE /\ trace' = Log(r, <<call>>)
                      /\ disk' = WriteAll(WriteAll(disk, made, y.size),
                                          IF y.m4a THEN {m4a} ELSE {}, y.size)
                      /\ mp3FilePath' = [mp3FilePath EXCEPT ![r] = mp3]
                      /\ m4aFilePath' = [m4aFilePath EXCEPT ![r] = m4a]
                      /\ pc' = [pc EXCEPT ![r] = "stat"]
    /\ url' = [url EXCEPT ![r] = <<>>]
    /\ UNCHANGED <<updates, spawned, chatID, text, partFiles, i, sent, err, planVars, byteVars>>

Download(r) == DownloadIn(r, YtDlpResults)

\* checkAndSendFile: os.Stat and the routing on the size it reports.
Stat(r) ==
    /\ pc[r] = "stat"
    /\ LET p == mp3FilePath[r] IN
       IF ~Exists(p)
       THEN /\ trace' = Log(r, <<Ev("stat", p, 0, StatErr, <<>>)>>)
            /\ err' = [err EXCEPT ![r] = Errorf("could not check file size: ", StatErr)]
            /\ pc' = [pc EXCEPT ![r] = "errReply"]
       ELSE /\ trace' = Log(r, <<Ev("stat", p, disk[p], NoErr, <<>>)>>)
            /\ err' = err
            /\ pc' = [pc EXCEPT ![r] = IF needsSplit(disk[p]) THEN "split" ELSE "sendDirect"]
    /\ UNCHANGED <<updates, spawned, chatID, text, url, mp3FilePath, m4aFilePath,
                   partFiles, i, sent, disk, now, planVars, byteVars>>

splitNeverFailed(e) == e # e

\* splitFile's test of the error ffmpeg's run returned.
splitFailed(e) == e # NoErr

\* splitFile up to ffmpeg's exit, with ffmpeg ending in one of the ways in F.
\* A panic in calculateSegmentTime is not recovered anywhere, so it ends the
\* process and every goroutine with it.
SplitIn(r, F) ==
    /\ pc[r] = "split"
    /\ LET plan == calculateSegmentTime(maxFileSize, bitrateKBps)
           p == mp3FilePath[r]
       IN  IF plan.panic
           THEN /\ pc' = [q \in Reqs |-> "crashed"]
                /\ UNCHANGED <<partFiles, i, err, disk, trace>>
           ELSE \E f \in F :
                /\ trace' = Log(r, <<Ev("segment", p, plan.value, f.err, <<>>)>>)
                /\ disk' = WriteAll(disk, {PartName(p, n) : n \in f.parts}, 0)
                /\ partFiles' = [partFiles EXCEPT ![r] = <<>>]
                /\ i' = [i EXCEPT ![r] = 0]
                /\ IF splitFailed(f.err)
                   THEN /\ err' = [err EXCEPT ![r] = Errorf("error splitting file: ", f.err)]
                        /\ pc' = [pc EXCEPT ![r] = "errReply"]
                   ELSE /\ err' = err
                        /\ pc' = [pc EXCEPT ![r] = "probe"]
    /\ UNCHANGED <<updates, spawned, chatID, text, url, mp3FilePath, m4aFilePath,
                   sent, now, planVars, byteVars>>

Split(r) == SplitIn(r, FfmpegResults)

nextProbeByTwo(n) == n + 2

\* The index the discovery loop probes after index n.
nextProbe(n) == n + 1

\* One iteration of splitFile's discovery loop: test -f on part i.
Probe(r) ==
    /\ pc[r] = "probe"
    /\ LET p == PartName(mp3FilePath[r], i[r]) IN
       IF Exists(p)
       THEN /\ trace' = Log(r, <<Ev("probe", p, i[r], NoErr, <<>>)>>)
            /\ partFiles' = [partFiles EXCEPT ![r] = Append(@, p)]
            /\ i' = [i EXCEPT ![r] = nextProbe(@)]
            /\ UNCHANGED <<pc, sent>>
       ELSE /\ trace' = Log(r, <<Ev("probe", p, i[r], ExitErr, <<>>)>>)
            /\ sent' = [sent EXCEPT ![r] = 0]
            /\ pc' = [pc EXCEPT ![r] = IF partFiles[r] = <<>> THEN "cleanup" ELSE "sendPart"]
            /\ UNCHANGED <<partFiles, i>>
    /\ UNCHANGED <<updates, spawned, chatID, text, url, mp3FilePath, m4aFilePath,
                   err, disk, now, planVars, byteVars>>

sendFileKeepOnError(d, filePath, chat, e) ==
    [disk |-> IF e = NoErr THEN Remove(d, filePath) ELSE d,
     log  |-> <<Ev("sendBinary", filePath, chat, e, <<>>)>>
              \o (IF e = NoErr THEN <<RemoveEv(d, filePath)>> ELSE <<>>),
     err  |-> e]

\* sendFile: the upload, then os.Remove whatever the upload returned.
sendFile(d, filePath, chat, e) ==
    [disk |-> Remove(d, filePath),
     log  |-> <<Ev("sendBinary", filePath, chat, e, <<>>), RemoveEv(d, filePath)>>,
     err  |-> e]

rangeNextReversed(parts, k) == parts[Len(parts) - k]

\* The element the range loop over partFiles visits after k completed iterations.
rangeNext(parts, k) == parts[k + 1]

\* Whether the range loop goes on after sendFile returned e.
rangeContinues(e) == e = NoErr

\* One iteration of checkAndSendFile's loop over the parts.
SendPart(r) ==
    /\ pc[r] = "sendPart"
    /\ LET part == rangeNext(partFiles[r], sent[r]) IN
       \E e \in UploadResults(disk, part) :
          LET s == sendFile(disk, part, chatID[r], e) IN
          /\ trace' = Log(r, s.log)
          /\ disk' = s.disk
          /\ sent' = [sent EXCEPT ![r] = @ + 1]
          /\ IF ~rangeContinues(s.err)
             THEN /\ err' = [err EXCEPT ![r] = Errorf("error sending file part: ", s.err)]
                  /\ pc' = [pc EXCEPT ![r] = "errReply"]
             ELSE /\ err' = err
                  /\ pc' = [pc EXCEPT ![r] =
                              IF sent[r] + 1 = Len(partFiles[r]) THEN "cleanup" ELSE "sendPart"]
    /\ UNCHANGED <<updates, spawned, chatID, text, url, mp3FilePath, m4aFilePath,
                   partFiles, i, now, planVars, byteVars>>

\* checkAndSendFile's direct branch.
SendDirect(r) ==
    /\ pc[r] = "sendDirect"
    /\ \E e \in UploadResults(disk, mp3FilePath[r]) :
          LET s == sendFile(disk, mp3FilePath[r], chatID[r], e) IN
          /\ trace' = Log(r, s.log)
          /\ disk' = s.disk
          /\ IF s.err # NoErr
             THEN /\ err' = [err EXCEPT ![r] = Errorf("error sending file: ", s.err)]
                  /\ pc' = [pc EXCEPT ![r] = "errReply"]
             ELSE /\ err' = err
                  /\ pc' = [pc EXCEPT ![r] = "cleanup"]
    /\ UNCHANGED <<updates, spawned, chatID, text, url, mp3FilePath, m4aFilePath,
                   partFiles, i, sent, now, planVars, byteVars>>

\* handleMessage's reply when checkAndSendFile returned an error; the reply's
\* own result overwrites err.
ReplyError(r) ==
    /\ pc[r] = "errReply"
    /\ \E e \in SendResults :
          /\ trace' = Log(r, <<SendText(r, SendErrText(err[r]), e)>>)
          /\ err' = [err EXCEPT ![r] = e]
    /\ pc' = [pc EXCEPT ![r] = "cleanup"]
    /\ UNCHANGED <<updates, spawned, chatID, text, url, mp3FilePath, m4aFilePath,
                   partFiles, i, sent, disk, now, planVars, byteVars>>

CleanupAfterOthers(r) ==
    /\ pc[r] = "cleanup"
    /\ \A q \in Reqs \ {r} : pc[q] \in {"idle", "returned"}
    /\ trace' = Log(r, <<RemoveEv(disk, m4aFilePath[r])>>)
    /\ disk' = Remove(disk, m4aFilePath[r])
    /\ pc' = [pc EXCEPT ![r] = "returned"]
    /\ UNCHANGED <<updates, spawned, chatID, text, url, mp3FilePath, m4aFilePath,
                   partFiles, i, sent, err, now, planVars, byteVars>>

\* handleMessage's last line: os.Remove(m4aFilePath), then the goroutine ends.
Cleanup(r) ==
    /\ pc[r] = "cleanup"
    /\ trace' = Log(r, <<RemoveEv(disk, m4aFilePath[r])>>)
    /\ disk' = Remove(disk, m4aFilePath[r])
    /\ pc' = [pc EXCEPT ![r] = "returned"]
    /\ UNCHANGED <<updates, spawned, chatID, text, url, mp3FilePath, m4aFilePath,
                   partFiles, i, sent, err, now, planVars, byteVars>>

Next ==
    \/ Receive
    \/ \E r \in Reqs : Reject(r)
    \/ \E r \in Reqs : Accept(r)
    \/ \E r \in Reqs : Download(r)
    \/ \E r \in Reqs : Stat(r)
    \/ \E r \in Reqs : Split(r)
    \/ \E r \in Reqs : Probe(r)
    \/ \E r \in Reqs : SendPart(r)
    \/ \E r \in Reqs : SendDirect(r)
    \/ \E r \in Reqs : ReplyError(r)
    \/ \E r \in Reqs : Cleanup(r)

Spec == Init /\ [][Next]_vars

----------------------------------------------------------------------------
\* Two messages handled concurrently.  The goroutines and their steps are the
\* same; the texts and what yt-dlp and ffmpeg can do are fewer.

ConcMaxParts == 1

ConcTexts == {<<"x">>, <<"youtu.be", "/">>}

ConcMessages == [chat : Chats, text : ConcTexts]

ConcYtDlpResults ==
    {y \in YtDlpResults : ~y.m4a /\ y.size \in {NoFile, maxFileSize, maxFileSize + 1}}

ConcFfmpegResults == [err : {NoErr, ExitErr}, parts : SUBSET (0..(ConcMaxParts - 1))]

ConcInit ==
    /\ updates \in {<<m1, m2>> : m1 \in ConcMessages, m2 \in ConcMessages}
    /\ spawned = 0
    /\ pc = Idle
    /\ chatID = [r \in Reqs |-> 0]
    /\ text = [r \in Reqs |-> <<>>]
    /\ url = [r \in Reqs |-> <<>>]
    /\ mp3FilePath = [r \in Reqs |-> NoPath]
    /\ m4aFilePath = [r \in Reqs |-> NoPath]
    /\ partFiles = [r \in Reqs |-> <<>>]
    /\ i = [r \in Reqs |-> 0]
    /\ sent = [r \in Reqs |-> 0]
    /\ err = [r \in Reqs |-> NoErr]
    /\ disk = [q \in {} |-> 0]
    /\ now = 1
    /\ trace = [r \in Reqs |-> <<>>]
    /\ chunkSize = 0
    /\ bitrateKbps = 0
    /\ segmentTime = 0
    /\ planPc = "off"
    /\ ByteOff

\* The steps of goroutine r.
ConcStep(r) ==
    \/ Reject(r)
    \/ Accept(r)
    \/ DownloadIn(r, ConcYtDlpResults)
    \/ Stat(r)
    \/ SplitIn(r, ConcFfmpegResults)
    \/ Probe(r)
    \/ SendPart(r)
    \/ SendDirect(r)
    \/ ReplyError(r)
    \/ Cleanup(r)

ConcNext == Receive \/ \E r \in Reqs : ConcStep(r)

ConcSpec == ConcInit /\ [][ConcNext]_vars

\* Two messages of one chat: the requests that can meet on a file path.
FairInit ==
    /\ ConcInit
    /\ \A j \in 1..Len(updates) : updates[j].chat = 1

\* The scheduler runs every goroutine that can run, and yt-dlp, ffmpeg, test
\* and bot.Send each return.
FairSpec ==
    /\ FairInit
    /\ [][ConcNext]_vars
    /\ WF_vars(Receive)
    /\ \A r \in Reqs : WF_vars(ConcStep(r))

----------------------------------------------------------------------------
\* The planner on its own: splitFile's first lines, for any chunkSize and
\* bitrateKbps a caller can pass.

Budgets == {(1024 \div 2) * k : k \in 1..MaxBudgetUnits}

Bitrates == (0 - MaxBitrate)..MaxBitrate

PlanInit ==
    /\ updates = <<>>
    /\ spawned = 0
    /\ pc = Idle
    /\ chatID = [r \in Reqs |-> 0]
    /\ text = [r \in Reqs |-> <<>>]
    /\ url = [r \in Reqs |-> <<>>]
    /\ mp3FilePath = [r \in Reqs |-> NoPath]
    /\ m4aFilePath = [r \in Reqs |-> NoPath]
    /\ partFiles = [r \in Reqs |-> <<>>]
    /\ i = [r \in Reqs |-> 0]
    /\ sent = [r \in Reqs |-> 0]
    /\ err = [r \in Reqs |-> NoErr]
    /\ disk = [q \in {} |-> 0]
    /\ now = 1
    /\ trace = [r \in Reqs |-> <<>>]
    /\ chunkSize \in Budgets
    /\ bitrateKbps \in Bitrates
    /\ segmentTime = 0
    /\ planPc = "call"
    /\ ByteOff

\* segmentTime := calculateSegmentTime(chunkSize, bitrateKbps)
PlanCalc ==
    /\ planPc = "call"
    /\ LET plan == calculateSegmentTime(chunkSize, bitrateKbps) IN
       /\ planPc' = IF plan.panic THEN "panicked" ELSE "planned"
       /\ segmentTime' = plan.value
    /\ UNCHANGED <<chunkSize, bitrateKbps, handlerVars, byteVars>>

\* ffmpeg is started with -segment_time segmentTime, whatever its value.
PlanInvoke ==
    /\ planPc = "planned"
    /\ planPc' = "invoked"
    /\ UNCHANGED <<chunkSize, bitrateKbps, segmentTime, handlerVars, byteVars>>

PlanNext == PlanCalc \/ PlanInvoke

PlanSpec == PlanInit /\ [][PlanNext]_vars

----------------------------------------------------------------------------
\* The byte splitter of the earlier version (src/unnamed/part_001), on its
\* own: splitFile(filePath, chunkSize) cuts the file into pieces of chunkSize
\* bytes.

MaxBytes == 5

MaxChunk == 3

ByteValues == {"a", "b"}

Contents == SeqsUpTo(ByteValues, MaxBytes)

CopyNRewound(f, n) ==
    LET k == IF Len(f.bytes) < n THEN Len(f.bytes) ELSE n
    IN  [data |-> SubSeq(f.bytes, 1, k), file |-> f, eof |-> k < n]

\* io.CopyN(dst, f, n): the next n bytes of f from its read position, or what
\* is left of f together with io.EOF when fewer than n remain.
CopyN(f, n) ==
    LET left == Len(f.bytes) - f.pos
        k == IF left < n THEN left ELSE n
    IN  [data |-> SubSeq(f.bytes, f.pos + 1, f.pos + k),
         file |-> [f EXCEPT !.pos = @ + k],
         eof  |-> k < n]

ByteInit ==
    /\ updates = <<>>
    /\ spawned = 0
    /\ pc = Idle
    /\ chatID = [r \in Reqs |-> 0]
    /\ text = [r \in Reqs |-> <<>>]
    /\ url = [r \in Reqs |-> <<>>]
    /\ mp3FilePath = [r \in Reqs |-> NoPath]
    /\ m4aFilePath = [r \in Reqs |-> NoPath]
    /\ partFiles = [r \in Reqs |-> <<>>]
    /\ i = [r \in Reqs |-> 0]
    /\ sent = [r \in Reqs |-> 0]
    /\ err = [r \in Reqs |-> NoErr]
    /\ disk = [q \in {} |-> 0]
    /\ now = 1
    /\ trace = [r \in Reqs |-> <<>>]
    /\ chunkSize \in 1..MaxChunk
    /\ bitrateKbps = 0
    /\ segmentTime = 0
    /\ planPc = "off"
    /\ file \in [bytes : Contents, pos : {0}]
    /\ totalSize = 0
    /\ offset = 0
    /\ written = <<>>
    /\ splitPc = "open"

\* os.Open, file.Stat and the loop's initialisation.
ByteOpen ==
    /\ splitPc = "open"
    /\ \/ /\ splitPc' = "failed"
          /\ UNCHANGED <<totalSize, offset>>
       \/ /\ totalSize' = Len(file.bytes)
          /\ offset' = 0
          /\ splitPc' = "loop"
    /\ UNCHANGED <<file, written, handlerVars, planVars>>

\* One iteration of the loop: os.Create of part offset/chunkSize, io.CopyN of
\* chunkSize bytes into it, and i += chunkSize.  io.EOF from CopyN is not an
\* error; a failed os.Create or any other copy error returns nil and the error.
ByteCopy ==
    /\ splitPc = "loop"
    /\ offset < totalSize
    /\ LET c == CopyN(file, chunkSize)
           n == GoDiv(offset, chunkSize)
       IN  \/ /\ splitPc' = "failed"
              /\ UNCHANGED <<file, offset, written>>
           \/ /\ c.data # <<>>
              /\ \E k \in 0..(Len(c.data) - 1) :
                    /\ written' = Append(written, [index |-> n, bytes |-> SubSeq(c.data, 1, k)])
                    /\ file' = [file EXCEPT !.pos = @ + k]
              /\ splitPc' = "failed"
              /\ UNCHANGED offset
           \/ /\ written' = Append(written, [index |-> n, bytes |-> c.data])
              /\ file' = c.file
              /\ offset' = offset + chunkSize
              /\ UNCHANGED splitPc
    /\ UNCHANGED <<totalSize, handlerVars, planVars>>

\* The loop condition fails: return partFiles, nil.
ByteReturn ==
    /\ splitPc = "loop"
    /\ ~(offset < totalSize)
    /\ splitPc' = "done"
    /\ UNCHANGED <<file, totalSize, offset, written, handlerVars, planVars>>

ByteNext == ByteOpen \/ ByteCopy \/ ByteReturn

ByteSplitSpec == ByteInit /\ [][ByteNext]_vars

----------------------------------------------------------------------------
\* Reading a goroutine's trace

Calls(r, op) == SelectSeq(trace[r], LAMBDA ev : ev.op = op)

CallsOn(r, op, p) == SelectSeq(trace[r], LAMBDA ev : ev.op = op /\ ev.path = p)

\* The goroutine went into splitFile and ffmpeg exited zero.
Segmented(r) == \E j \in 1..Len(trace[r]) : trace[r][j].op = "segment" /\ trace[r][j].err = NoErr

\* The sequence of artifacts handed to the delivery step.
Artifacts(r) == IF Segmented(r) THEN partFiles[r] ELSE <<mp3FilePath[r]>>

\* Delivery has stopped on a failed send.
DeliveryFailed(r) ==
    /\ pc[r] \in {"errReply", "cleanup", "returned"}
    /\ Calls(r, "sendBinary") # <<>>
    /\ Calls(r, "sendBinary")[Len(Calls(r, "sendBinary"))].err # NoErr

\* 0-based index of the artifact whose send failed.
FailedIndex(r) == Len(Calls(r, "sendBinary")) - 1

----------------------------------------------------------------------------
\* C1: on the split path the parts are sent in index order 0, 1, 2, ..., one
\* at a time: the j-th sendBinary of the request is for part j-1, it follows
\* the return (and the removal) of the one before, every send before the last
\* one succeeded, and no more sends are made than there are parts.
C1_PartsSentInOrder ==
    \A r \in Reqs :
        Segmented(r) =>
            LET S == Calls(r, "sendBinary")
                T == SelectSeq(trace[r], LAMBDA ev : ev.op = "sendBinary"
                                           \/ (ev.op = "remove" /\ ev.path.part # NoPart))
            IN  /\ Len(S) <= Len(partFiles[r])
                /\ \A j \in 1..Len(S) :
                      /\ S[j].path = PartName(mp3FilePath[r], j - 1)
                      /\ S[j].path = partFiles[r][j]
                      /\ j < Len(S) => S[j].err = NoErr
                /\ Len(T) = 2 * Len(S)
                /\ \A j \in 1..Len(S) :
                      /\ T[2 * j - 1] = S[j]
                      /\ T[2 * j].op = "remove" /\ T[2 * j].path = S[j].path
                /\ (pc[r] = "returned" /\ ~DeliveryFailed(r)) => Len(S) = Len(partFiles[r])

\* A request has sent all of at least three parts.
C1_Witness ==
    \E r \in Reqs :
        /\ pc[r] = "returned"
        /\ Segmented(r)
        /\ Len(partFiles[r]) >= 3
        /\ Len(Calls(r, "sendBinary")) = Len(partFiles[r])

\* C2: when the send of artifact k is the first to fail, delivery stops there:
\* artifacts 0..k have had exactly one send and one removal each and are gone
\* from the disk, artifacts k+1..N-1 have had no send and no removal and are
\* still on the disk.
C2_StopsAtFirstFailure ==
    \A r \in Reqs :
        DeliveryFailed(r) =>
            LET A == Artifacts(r)
                k == FailedIndex(r)
            IN  /\ k < Len(A)
                /\ \A j \in 0..(Len(A) - 1) :
                      IF j <= k
                      THEN /\ Len(CallsOn(r, "sendBinary", A[j + 1])) = 1
                           /\ Len(CallsOn(r, "remove", A[j + 1])) = 1
                           /\ ~Exists(A[j + 1])
                           /\ j < k => CallsOn(r, "sendBinary", A[j + 1])[1].err = NoErr
                      ELSE /\ CallsOn(r, "sendBinary", A[j + 1]) = <<>>
                           /\ CallsOn(r, "remove", A[j + 1]) = <<>>
                           /\ Exists(A[j + 1])

\* Five parts, the third send failed, the request is over.
C2_Witness ==
    \E r \in Reqs :
        /\ pc[r] = "returned"
        /\ DeliveryFailed(r)
        /\ Len(partFiles[r]) = 5
        /\ FailedIndex(r) = 2
        /\ \A n \in {0, 1, 2} : ~Exists(PartName(mp3FilePath[r], n))
        /\ \A n \in {3, 4} : Exists(PartName(mp3FilePath[r], n))

\* The text of the error reply the request attempted, if any.
ErrorReplies(r) ==
    SelectSeq(trace[r], LAMBDA ev : ev.op = "sendText" /\ ev.text # AckText)

\* A text names the index k when the decimal k is one of its pieces.
NamesIndex(txt, k) == \E j \in 1..Len(txt) : txt[j] = ToString(k)

\* C3: when a part's send fails, the failure the delivery step returns, and the
\* reply made from it, name the 0-based index of that part.
C3_FailureNamesIndex ==
    \A r \in Reqs :
        (DeliveryFailed(r) /\ Segmented(r)) =>
            /\ pc[r] = "errReply" => NamesIndex(err[r], FailedIndex(r))
            /\ pc[r] \in {"cleanup", "returned"} =>
                  /\ Len(ErrorReplies(r)) = 1
                  /\ NamesIndex(ErrorReplies(r)[1].text, FailedIndex(r))

\* The files of request r: everything named download_<chat>_<ts>.
OwnFiles(r) ==
    {p \in DOMAIN disk : p.chat = mp3FilePath[r].chat /\ p.ts = mp3FilePath[r].ts}

\* C4: once a request has ended, none of its local files is left on the disk.
C4_NoFilesLeft ==
    \A r \in Reqs : pc[r] = "returned" => OwnFiles(r) = {}

\* The size os.Stat reported to request r, or NoFile.
StatSize(r) ==
    LET S == SelectSeq(trace[r], LAMBDA ev : ev.op = "stat" /\ ev.err = NoErr)
    IN  IF S = <<>> THEN NoFile ELSE S[1].n

\* C5: an artifact of at most maxFileSize bytes is never segmented, is sent by
\* at most one sendBinary, and by the end of the request has been sent exactly
\* once and removed; a larger one goes to segmentation and is itself never sent.
C5_StrictRouting ==
    \A r \in Reqs :
        StatSize(r) # NoFile =>
            IF StatSize(r) <= maxFileSize
            THEN /\ Calls(r, "segment") = <<>>
                 /\ Len(Calls(r, "sendBinary")) <= 1
                 /\ \A j \in 1..Len(Calls(r, "sendBinary")) :
                       Calls(r, "sendBinary")[j].path = mp3FilePath[r]
                 /\ pc[r] = "returned" =>
                       /\ Len(Calls(r, "sendBinary")) = 1
                       /\ Len(CallsOn(r, "remove", mp3FilePath[r])) = 1
                       /\ ~Exists(mp3FilePath[r])
            ELSE /\ CallsOn(r, "sendBinary", mp3FilePath[r]) = <<>>
                 /\ pc[r] # "split" => Len(Calls(r, "segment")) = 1
                 /\ pc[r] # "sendDirect"

\* An artifact of exactly maxFileSize bytes was sent directly and removed.
C5_Witness ==
    \E r \in Reqs :
        /\ pc[r] = "returned"
        /\ StatSize(r) = maxFileSize
        /\ Len(Calls(r, "sendBinary")) = 1
        /\ Calls(r, "segment") = <<>>
        /\ ~Exists(mp3FilePath[r])

\* The request ended after attempting an error reply.
Aborted(r) == pc[r] = "returned" /\ ErrorReplies(r) # <<>>

\* C6: a request whose segmentation call failed, or returned without part 0 on
\* the disk, ends Aborted with an error reply, never silently.
C6_NoEmptyPartSet ==
    \A r \in Reqs :
        (/\ pc[r] = "returned"
         /\ Calls(r, "segment") # <<>>
         /\ (Calls(r, "segment")[1].err # NoErr \/ partFiles[r] = <<>>))
        => Aborted(r)

----------------------------------------------------------------------------
\* Claims about the planner, under PlanSpec.

\* Bytes per second of audio at kbps kilobits per second, a kilobyte being
\* the 1024 bytes calculateSegmentTime takes it to be.
rateBytesPerSecond(kbps) == (kbps * 1024) \div 8

\* C7: for a positive budget and a positive bitrate, the duration v the planner
\* returns satisfies v * rate <= budget < (v + 1) * rate.
C7_MaximalDuration ==
    (planPc \in {"planned", "invoked"} /\ chunkSize > 0 /\ bitrateKbps > 0) =>
        /\ segmentTime * rateBytesPerSecond(bitrateKbps) <= chunkSize
        /\ (segmentTime + 1) * rateBytesPerSecond(bitrateKbps) > chunkSize

\* C8: for a positive budget and a positive bitrate, when one second of audio
\* already exceeds the budget the planner returns no duration, and no duration
\* it returns or hands to ffmpeg is zero or negative.
C8_BudgetTooSmall ==
    (chunkSize > 0 /\ bitrateKbps > 0) =>
        /\ rateBytesPerSecond(bitrateKbps) > chunkSize => planPc \notin {"planned", "invoked"}
        /\ planPc \in {"planned", "invoked"} => segmentTime > 0

\* C9: with a zero or negative rate, the converted rate included, the planner
\* neither panics on the division nor returns a duration.
C9_InvalidConfiguration ==
    (bitrateKbps <= 0 \/ bitrateToKBps(bitrateKbps) <= 0) =>
        planPc \notin {"panicked", "planned", "invoked"}

----------------------------------------------------------------------------
\* A text of a recognized shape: youtube.com/watch or youtu.be/ somewhere in it.
RecognizedShape(t) ==
    \E j \in 1..(Len(t) - 1) :
        \/ t[j] = "youtube.com" /\ t[j + 1] = "/watch"
        \/ t[j] = "youtu.be" /\ t[j + 1] = "/"

\* C10: the one step a request with an unrecognized text takes sends the
\* validation reply and ends the request; it makes no other call and leaves
\* the disk, the clock and the paths alone.
C10_InvalidInputOnlyReplies ==
    [][\A r \in Reqs :
          (pc[r] = "handle" /\ ~RecognizedShape(text[r]) /\ pc'[r] # "handle") =>
              /\ pc'[r] = "returned"
              /\ \E e \in SendResults : trace'[r] = <<SendText(r, InvalidText, e)>>
              /\ disk' = disk
              /\ now' = now
              /\ mp3FilePath'[r] = NoPath /\ m4aFilePath'[r] = NoPath]_vars

\* The text "x", padded with a space, was rejected with the validation reply.
C10_Witness ==
    \E r \in Reqs :
        /\ pc[r] = "returned"
        /\ text[r] = <<Space, "x">>
        /\ Len(trace[r]) = 1
        /\ trace[r][1].text = InvalidText
        /\ DOMAIN disk = {}

----------------------------------------------------------------------------
\* The calls of request r that returned an error to checkAndSendFile.
FailedCalls(r) ==
    SelectSeq(trace[r], LAMBDA ev : ev.op \in {"stat", "segment", "sendBinary"} /\ ev.err # NoErr)

----------------------------------------------------------------------------
\* Something failed in request r: its text was refused, yt-dlp failed, or
\* os.Stat, ffmpeg or a send of audio returned an error.
Failed(r) ==
    \/ \E j \in 1..Len(trace[r]) : trace[r][j].op = "sendText" /\ trace[r][j].text = InvalidText
    \/ \E j \in 1..Len(trace[r]) : trace[r][j].op = "acquire" /\ trace[r][j].err # NoErr
    \/ FailedCalls(r) # <<>>

----------------------------------------------------------------------------
\* The file paths request r has handed to yt-dlp, os.Stat, ffmpeg, test -f,
\* a send of audio or os.Remove.
Touched(r) ==
    {trace[r][j].path : j \in {k \in 1..Len(trace[r]) : trace[r][k].op # "sendText"}}

\* C13: two requests that are both under way, neither having returned, have
\* touched no file path in common, also when they come from the same chat.
C13_DisjointPaths ==
    \A r \in Reqs, q \in Reqs :
        (/\ r # q
         /\ pc[r] \notin {"idle", "returned"}
         /\ pc[q] \notin {"idle", "returned"}) => Touched(r) \cap Touched(q) = {}

----------------------------------------------------------------------------
\* The artifacts request r came to hold: the downloaded mp3 once os.Stat has
\* seen it, and the parts that discovery found.
Held(r) ==
    (IF StatSize(r) # NoFile THEN {mp3FilePath[r]} ELSE {})
        \cup {partFiles[r][j] : j \in 1..Len(partFiles[r])}

\* The os.Remove calls of request r that deleted p.
Deletions(r, p) ==
    SelectSeq(trace[r], LAMBDA ev : ev.op = "remove" /\ ev.path = p /\ ev.err = NoErr)

\* C14: by the time a request has returned, each artifact it held has been
\* deleted by exactly one os.Remove, and no artifact is stat-ed, given to
\* ffmpeg or sent after the os.Remove that deleted it.
C14_DeletedExactlyOnce ==
    \A r \in Reqs :
        /\ pc[r] = "returned" => \A p \in Held(r) : Len(Deletions(r, p)) = 1
        /\ \A j \in 1..Len(trace[r]), k \in 1..Len(trace[r]) :
              (/\ j < k
               /\ trace[r][j].op = "remove"
               /\ trace[r][j].err = NoErr
               /\ trace[r][k].path = trace[r][j].path)
                  => trace[r][k].op \notin {"stat", "segment", "sendBinary"}

----------------------------------------------------------------------------
\* The smallest index whose part file is not on the disk.
FirstMissing(r) ==
    CHOOSE m \in 0..MaxParts :
        /\ ~Exists(PartName(mp3FilePath[r], m))
        /\ \A k \in 0..(m - 1) : Exists(PartName(mp3FilePath[r], k))

\* The part files with indices 0..m-1, in index order.
PartsBelow(r, m) == [j \in 1..m |-> PartName(mp3FilePath[r], j - 1)]

\* Discovery has just returned: its last probe found nothing and no later
\* step has run.
DiscoveryEnded(r) ==
    /\ pc[r] # "probe"
    /\ trace[r] # <<>>
    /\ trace[r][Len(trace[r])].op = "probe"

\* C15: while discovery runs it has collected the parts 0..i-1, all present;
\* when it returns, with m the smallest index whose part file is missing, it
\* has made m+1 probes and its result is exactly the parts 0..m-1 in index
\* order, whatever part files exist above m.
C15_DiscoveryStopsAtFirstGap ==
    \A r \in Reqs :
        /\ pc[r] = "probe" =>
              /\ partFiles[r] = PartsBelow(r, i[r])
              /\ i[r] <= FirstMissing(r)
        /\ DiscoveryEnded(r) =>
              /\ partFiles[r] = PartsBelow(r, FirstMissing(r))
              /\ Len(Calls(r, "probe")) = FirstMissing(r) + 1

C15_Witness ==
    \E r \in Reqs :
        /\ DiscoveryEnded(r)
        /\ Len(partFiles[r]) = 2
        /\ Exists(PartName(mp3FilePath[r], 3))
        /\ Exists(PartName(mp3FilePath[r], 4))

----------------------------------------------------------------------------
\* The last call request r made, in the state after a step.
LastCall(r) == trace[r][Len(trace[r])]

\* Where handleMessage goes after a reply with this text, whatever bot.Send
\* returned for it.
AfterReply(txt) ==
    IF txt = AckText THEN "download"
    ELSE IF txt = InvalidText \/ Head(txt) = "Error downloading mp3: " THEN "returned"
    ELSE "cleanup"

\* A step of request r that ended with a text reply leaves r where the reply's
\* text alone says, and leaves the files and the paths as they were.
ReplyStepIgnoresResult(r) ==
    (/\ Len(trace'[r]) > Len(trace[r])
     /\ trace'[r][Len(trace'[r])].op = "sendText")
        => /\ pc'[r] = AfterReply(trace'[r][Len(trace'[r])].text)
           /\ UNCHANGED <<disk, mp3FilePath, m4aFilePath, partFiles, sent>>

\* C16: what bot.Send returns for a text reply changes nothing in what the
\* request does next: every step that ends with a reply goes where the reply's
\* text alone says; after a failed acknowledgement the next call is still
\* yt-dlp; and after a failed "Error sending mp3" reply the request still ends
\* by os.Remove of the m4a path.
C16_RepliesBestEffort ==
    /\ [][\A r \in Reqs : ReplyStepIgnoresResult(r)]_vars
    /\ [](\A r \in Reqs :
            /\ (/\ Len(trace[r]) >= 1
                /\ trace[r][1].text = AckText
                /\ trace[r][1].err # NoErr
                /\ pc[r] # "download")
                   => (Len(trace[r]) >= 2 /\ trace[r][2].op = "acquire")
            /\ (/\ pc[r] = "returned"
                /\ ErrorReplies(r) # <<>>
                /\ Head(ErrorReplies(r)[1].text) = "Error sending mp3: ")
                   => (LastCall(r).op = "remove" /\ LastCall(r).path = m4aFilePath[r]))

C16_Witness ==
    \E r \in Reqs :
        /\ pc[r] = "returned"
        /\ trace[r][1].text = AckText
        /\ trace[r][1].err # NoErr
        /\ ErrorReplies(r) # <<>>
        /\ Head(ErrorReplies(r)[1].text) = "Error sending mp3: "
        /\ ErrorReplies(r)[1].err # NoErr
        /\ LastCall(r).op = "remove"

----------------------------------------------------------------------------
\* The yt-dlp calls of request r that returned an error.
FailedAcquisitions(r) ==
    SelectSeq(trace[r], LAMBDA ev : ev.op = "acquire" /\ ev.err # NoErr)

\* C17: a request whose yt-dlp call failed has made three calls in all: the
\* acknowledgement, yt-dlp, and one reply "Error downloading mp3: " followed by
\* yt-dlp's own error text; it has returned, Aborted, with no os.Stat, ffmpeg,
\* probe, send of audio or os.Remove.
C17_AcquisitionFailureAborts ==
    \A r \in Reqs :
        FailedAcquisitions(r) # <<>> =>
            /\ Len(trace[r]) = 3
            /\ trace[r][1].op = "sendText" /\ trace[r][1].text = AckText
            /\ trace[r][2] = FailedAcquisitions(r)[1]
            /\ trace[r][3].op = "sendText"
            /\ trace[r][3].text = <<"Error downloading mp3: ">> \o trace[r][2].err
            /\ Aborted(r)
            /\ \A op \in {"stat", "segment", "probe", "sendBinary", "remove"} :
                  Calls(r, op) = <<>>

C17_Witness ==
    \E r \in Reqs :
        /\ Aborted(r)
        /\ FailedAcquisitions(r) # <<>>
        /\ FailedAcquisitions(r)[1].err = ExitErr
        /\ Contains(trace[r][3].text, ExitErr)

----------------------------------------------------------------------------
\* The positions in request r's trace of its calls of kind op.
Positions(r, op) == {j \in 1..Len(trace[r]) : trace[r][j].op = op}

\* C18: the calls of one request come in the order of handleMessage and
\* checkAndSendFile.  The first call is a text reply; yt-dlp is the second call
\* and follows the acknowledgement; os.Stat is the third and follows a yt-dlp
\* that succeeded; ffmpeg is the fourth and follows an os.Stat that succeeded;
\* every send of audio comes after a successful os.Stat and after ffmpeg, if
\* ffmpeg ran at all; and a request whose text was refused, or whose yt-dlp,
\* os.Stat or ffmpeg failed, makes no send of audio.
C18_StepsInOrder ==
    \A r \in Reqs :
        /\ trace[r] # <<>> => trace[r][1].op = "sendText"
        /\ \A j \in Positions(r, "acquire") : j = 2 /\ trace[r][1].text = AckText
        /\ \A j \in Positions(r, "stat") :
              j = 3 /\ trace[r][2].op = "acquire" /\ trace[r][2].err = NoErr
        /\ \A j \in Positions(r, "segment") :
              j = 4 /\ trace[r][3].op = "stat" /\ trace[r][3].err = NoErr
        /\ \A j \in Positions(r, "sendBinary") :
              /\ j > 3
              /\ trace[r][3].op = "stat" /\ trace[r][3].err = NoErr
              /\ \A k \in Positions(r, "segment") : k < j /\ trace[r][k].err = NoErr
        /\ (\/ trace[r] # <<>> /\ trace[r][1].text = InvalidText
            \/ FailedAcquisitions(r) # <<>>
            \/ \E j \in Positions(r, "stat") \cup Positions(r, "segment") :
                  trace[r][j].err # NoErr)
              => Positions(r, "sendBinary") = {}

C18_Witness ==
    \E r \in Reqs :
        /\ pc[r] = "returned"
        /\ Positions(r, "segment") = {4}
        /\ Cardinality(Positions(r, "sendBinary")) = 3
        /\ ErrorReplies(r) = <<>>

----------------------------------------------------------------------------
\* C19: every request that has been handed to a goroutine returns, whatever
\* the other request does: the discovery loop and the delivery loop end, and
\* no step waits for the other goroutine.
C19_EveryRequestReturns ==
    \A r \in Reqs : (pc[r] = "handle") ~> (pc[r] = "returned")

C19_Witness ==
    \E r \in Reqs, q \in Reqs :
        /\ r # q
        /\ pc[r] = "returned"
        /\ pc[q] = "returned"
        /\ Segmented(r)
        /\ Positions(r, "probe") # {}
        /\ Positions(r, "sendBinary") # {}
        /\ Positions(q, "sendBinary") # {}

----------------------------------------------------------------------------
\* The bytes of the part files, one after the other in the order of the list.
RECURSIVE Joined(_)
Joined(ps) == IF ps = <<>> THEN <<>> ELSE Head(ps).bytes \o Joined(Tail(ps))

\* The number of pieces of c bytes needed for s bytes.
CeilDiv(s, c) == (s + c - 1) \div c

\* C20: when the byte splitter returns its list for a file of S > 0 bytes and
\* a chunkSize c > 0, the list has ceil(S/c) parts named 0, 1, 2, ... in that
\* order, each part but the last holds exactly c bytes, the last holds the
\* S - (n-1)c > 0 bytes that remain, and the parts joined in order are the
\* bytes of the source file.
C20_ByteSplitExact ==
    (splitPc = "done" /\ totalSize > 0 /\ chunkSize > 0) =>
        LET n == CeilDiv(totalSize, chunkSize) IN
        /\ Len(written) = n
        /\ \A j \in 1..n : written[j].index = j - 1
        /\ \A j \in 1..(n - 1) : Len(written[j].bytes) = chunkSize
        /\ Len(written[n].bytes) = totalSize - (n - 1) * chunkSize
        /\ Len(written[n].bytes) > 0
        /\ Joined(written) = file.bytes

C20_Witness ==
    /\ splitPc = "done"
    /\ Len(written) = 3
    /\ Len(written[3].bytes) < chunkSize
    /\ written[1].bytes # written[2].bytes
    /\ Joined(written) = file.bytes

============================================================================
